---- MODULE Spec2Model ----
(***************************************************************************)
(* Model of the Apps Script API service layer of makerspace-inventory-hub: *)
(* the TTL cache, the get/post helpers, cachedGet, the validation helpers  *)
(* and the six exported API functions plus invalidateCache; and of the     *)
(* Brevo e-mail alerts of src/lib/email.ts, which have a specification of  *)
(* their own (EmailSpec).                                                  *)
(*                                                                         *)
(* JavaScript runs each async function up to its first `await`, and each   *)
(* continuation after an `await`, as one uninterrupted step.  One action   *)
(* models each such step.  Calls that are suspended at `await fetch(...)`  *)
(* live in `calls`.  Between the answer of fetch() and the end of the call *)
(* (res.json(), the caller's own await) the code reads and writes no       *)
(* shared state, so these resumptions are one step, taken when the last of *)
(* them runs.                                                              *)
(*                                                                         *)
(* Strings are sequences of characters; a source literal is one token.     *)
(***************************************************************************)
EXTENDS Integers, Sequences, FiniteSets, Bags, TLC

VARIABLES
    cache,    \* the Map `cache`: key -> [data, timestamp]
    now,      \* the value Date.now() returns
    calls,    \* the calls suspended at an await: a bag of call records
    last,     \* what the step just taken did, as its caller can observe it
    written,  \* keys a successful write invalidated and no read has asked for since
    ops,      \* API calls made so far
    env,      \* email.ts: the values of BREVO_API_KEY, ADMIN_EMAIL, FROM_EMAIL
    mails,    \* email.ts: the alerts suspended at an await: a bag of records
    mlast     \* email.ts: what the step just taken did

mailVars == <<env, mails, mlast>>

vars == <<cache, now, calls, last, written, ops, env, mails, mlast>>

\* ---------------------------------------------------------------- bounds

\* Date.now() stays at or below this value.
MaxNow == 120001

\* Number of calls that may be suspended at an await at the same time.
MaxCalls == 2

\* Number of API calls the application makes in one run.
MaxOps == 3

\* ------------------------------------------------------------- constants

CACHE_TTL_MS == 2 * 60 * 1000

\* The amounts by which the clock advances between two steps: up to the last
\* instant of an entry's life, and just past it.
TickSteps == {CACHE_TTL_MS, CACHE_TTL_MS + 1}

\* ----------------------------------------------------------------- values

\* JavaScript `undefined` (an omitted argument, a missing field); it is
\* distinct from every string.
Undefined == <<"undefined">>

\* JavaScript / JSON null.
Null == "null"

\* The JSON values a GET may answer with.  Null is falsy, the others truthy.
JsonValues == {Null, "d1", "d2"}

\* Marker for "no value" in the observation record.
NoVal == "none"

\* Truthiness of a JSON value, as `if (hit)` tests it.
Truthy(v) == v # Null

\* Truthiness of an optional string, as `if (key)` and `if (data.error)` test it.
StrTruthy(s) == s # Undefined /\ s # <<>>

\* String.prototype.trim on a sequence of characters.
RECURSIVE TrimStart(_)
TrimStart(s) ==
    IF s # <<>> /\ Head(s) = " " THEN TrimStart(Tail(s)) ELSE s

RECURSIVE TrimEnd(_)
TrimEnd(s) ==
    IF s # <<>> /\ s[Len(s)] = " " THEN TrimEnd(SubSeq(s, 1, Len(s) - 1)) ELSE s

Trim(s) == TrimEnd(TrimStart(s))

\* The argument values callers pass: empty, blank and proper strings.
CaseNames == {<<>>, <<" ">>, <<"A">>, <<"B">>}
UserIds == {<<>>, <<"u">>}
Components == {<<>>, <<"w">>}

\* A number is a fraction <<numerator, denominator>>: 3/2 is 1.5.
Quantities == {<<0, 1>>, <<-1, 1>>, <<1, 1>>, <<3, 2>>}

\* The calls of borrowComponent made: every argument proper, or exactly one
\* argument varied over its values.
BorrowArgs ==
    {<<u, <<"A">>, <<"w">>, <<1, 1>>>> : u \in UserIds}
    \cup {<<<<"u">>, c, <<"w">>, <<1, 1>>>> : c \in CaseNames}
    \cup {<<<<"u">>, <<"A">>, w, <<1, 1>>>> : w \in Components}
    \cup {<<<<"u">>, <<"A">>, <<"w">>, q>> : q \in Quantities}

\* The calls of returnComponent made, likewise.
ReturnArgs ==
    {<<u, <<"w">>, <<1, 1>>>> : u \in UserIds}
    \cup {<<<<"u">>, w, <<1, 1>>>> : w \in Components}
    \cup {<<<<"u">>, <<"w">>, q>> : q \in Quantities}

\* ------------------------------------------------------------------ cache

\* One key for the components of every case.
KeyComponentsShared(caseName) == <<"getComponents:">>

KeyCases == <<"getCases">>
KeyLiveStock == <<"getLiveStock">>
KeyComponents(caseName) == <<"getComponents:">> \o caseName

\* cache.delete(key)
MapDelete(c, key) == [k \in DOMAIN c \ {key} |-> c[k]]

\* cache.set(key, entry)
MapSet(c, key, entry) ==
    [k \in DOMAIN c \cup {key} |-> IF k = key THEN entry ELSE c[k]]

\* cache.clear(): the empty map.
EmptyMap == [k \in {} |-> Null]

\* A getCached that never expires an entry.
getCachedNoExpiry(c, key, t) ==
    IF key \notin DOMAIN c
    THEN [ret |-> Null, cache |-> c]
    ELSE [ret |-> c[key].data, cache |-> c]

\* A getCached that reports an expired entry absent but leaves it in the map.
getCachedNoDelete(c, key, t) ==
    IF key \notin DOMAIN c
    THEN [ret |-> Null, cache |-> c]
    ELSE IF t - c[key].timestamp > CACHE_TTL_MS
         THEN [ret |-> Null, cache |-> c]
         ELSE [ret |-> c[key].data, cache |-> c]

\* getCached(key) at time t on map c: the value returned and the map left.
getCached(c, key, t) ==
    IF key \notin DOMAIN c
    THEN [ret |-> Null, cache |-> c]
    ELSE IF t - c[key].timestamp > CACHE_TTL_MS
         THEN [ret |-> Null, cache |-> MapDelete(c, key)]
         ELSE [ret |-> c[key].data, cache |-> c]

\* A setCache that keeps the timestamp of the entry it overwrites.
setCacheKeepStamp(c, key, data, t) ==
    MapSet(c, key, [data |-> data,
                    timestamp |-> IF key \in DOMAIN c THEN c[key].timestamp ELSE t])

\* setCache(key, data) at time t.
setCache(c, key, data, t) == MapSet(c, key, [data |-> data, timestamp |-> t])

\* An invalidateCache that does nothing when no key is given.
invalidateCacheKeyOnly(c, key) ==
    IF StrTruthy(key) THEN MapDelete(c, key) ELSE c

\* invalidateCache(key?) on map c.
invalidateCache(c, key) ==
    IF StrTruthy(key) THEN MapDelete(c, key) ELSE EmptyMap

\* ------------------------------------------------------------- validation

\* validateNotEmpty passes.
validateNotEmpty(value) == ~(value = <<>> \/ Trim(value) = <<>>)

\* A validatePositiveInt without the Number.isInteger test.
validatePositiveIntNoIntegerCheck(value) == ~(value[1] < value[2])

\* validatePositiveInt passes: Number.isInteger(value) and not value < 1.
validatePositiveInt(value) ==
    /\ value[1] % value[2] = 0
    /\ ~(value[1] < value[2])

\* ------------------------------------------------------------ the network

\* What fetch() can resolve with for a GET: a non-2xx status, a body that is
\* not JSON, or a JSON value.
GetResponses ==
    {[ok |-> FALSE, parses |-> TRUE, body |-> Null],
     [ok |-> TRUE, parses |-> FALSE, body |-> Null]}
    \cup {[ok |-> TRUE, parses |-> TRUE, body |-> b] : b \in JsonValues}

\* The `error` field of a POST answer: missing, the empty string, a message.
ErrorFields == {Undefined, <<>>, <<"Not enough stock available">>}

\* The JSON bodies a POST may answer with: null, or an object.
PostBodies ==
    {[isNull |-> TRUE, error |-> Undefined]}
    \cup {[isNull |-> FALSE, error |-> e] : e \in ErrorFields}

NoBody == [isNull |-> TRUE, error |-> Undefined]

PostResponses ==
    {[ok |-> FALSE, parses |-> TRUE, body |-> NoBody],
     [ok |-> TRUE, parses |-> FALSE, body |-> NoBody]}
    \cup {[ok |-> TRUE, parses |-> TRUE, body |-> b] : b \in PostBodies}

\* The part of get() and post() after `await fetch(...)`: throw on !res.ok,
\* else res.json(), which rejects when the body is not JSON.
httpResult(r) ==
    IF ~r.ok THEN [threw |-> TRUE, value |-> r.body]
    ELSE IF ~r.parses THEN [threw |-> TRUE, value |-> r.body]
    ELSE [threw |-> FALSE, value |-> r.body]

\* ------------------------------------------------------------------ state

\* A suspended call: where it waits (pc), the function (op), the cache key of
\* a cachedGet and the caseName of a fetchComponentsByCase or borrowComponent.
NoCall == [pc |-> "idle", op |-> "none", key |-> Undefined, caseName |-> Undefined]

\* Another call may suspend.
MaySuspend == BagCardinality(calls) < MaxCalls

Suspend(c) == calls (+) SetToBag({c})
Resume(c) == calls (-) SetToBag({c})

\* The observation of a step: the event (ev), the cache key it used, the
\* number of fetch() calls it issued (net), the value it returned (ret), the
\* success flag and message of a write result, the error field of the answer
\* the write read (respErr), the number of entries the step deleted from
\* the map (removed), and whether its setCache overwrote an entry (replaced).
NoEv == [ev |-> "init", key |-> Undefined, net |-> 0, ret |-> NoVal,
         success |-> FALSE, message |-> Undefined, respErr |-> Undefined,
         removed |-> 0, replaced |-> FALSE]

\* Number of entries of map c that map d no longer has.
Removed(c, d) == Cardinality(DOMAIN c \ DOMAIN d)

\* The module constants of email.ts, read from the environment at load: a
\* variable is not set, set to the empty string, or set.
EnvValues == {Undefined, <<>>, <<"set">>}

Envs == [BREVO_API_KEY : EnvValues, ADMIN_EMAIL : EnvValues, FROM_EMAIL : EnvValues]

\* An environment with every variable set.
FullEnv ==
    [BREVO_API_KEY |-> <<"set">>, ADMIN_EMAIL |-> <<"set">>, FROM_EMAIL |-> <<"set">>]

\* What a step of email.ts did: the step (ev), the alert it belongs to
\* (alert), the number of fetch() calls it issued (net), what it logged (log)
\* and how the alert stands towards its caller (outcome): still pending, its
\* promise resolved, or its promise rejected.
NoMail == [ev |-> "init", alert |-> "none", net |-> 0, log |-> "none",
           outcome |-> "pending"]

\* The API service layer at start.
ApiInit ==
    /\ cache = EmptyMap
    /\ now = 0
    /\ calls = EmptyBag
    /\ last = NoEv
    /\ written = {}
    /\ ops = 0

Init ==
    /\ ApiInit
    /\ env = FullEnv
    /\ mails = EmptyBag
    /\ mlast = NoMail

\* ---------------------------------------------------------------- helpers

\* A validation helper threw: the async function rejects, nothing else runs.
ThrowValidation ==
    /\ last' = [NoEv EXCEPT !.ev = "invalid"]
    /\ UNCHANGED <<cache, now, calls, written>>

\* get(params) up to `await fetch(...)`, called from fetchUserHoldings.
get(op) ==
    /\ MaySuspend
    /\ calls' = Suspend([NoCall EXCEPT !.pc = "get", !.op = op])
    /\ last' = [NoEv EXCEPT !.ev = "getRequest", !.net = 1]
    /\ UNCHANGED <<cache, now, written>>

\* post(body) up to `await fetch(...)`.
post(op, caseName) ==
    /\ MaySuspend
    /\ calls' = Suspend([NoCall EXCEPT !.pc = "post", !.op = op, !.caseName = caseName])
    /\ last' = [NoEv EXCEPT !.ev = "postRequest", !.net = 1]
    /\ UNCHANGED <<cache, now, written>>

\* A cachedGet that joins a request already in flight for its key instead of
\* sending its own.
cachedGetShared(op, cacheKey, case) ==
    LET look == getCached(cache, cacheKey, now)
        obs == [NoEv EXCEPT !.key = cacheKey, !.removed = Removed(cache, look.cache)]
    IN  /\ cache' = look.cache
        /\ written' = written \ {cacheKey}
        /\ UNCHANGED now
        /\ IF Truthy(look.ret)
           THEN last' = [obs EXCEPT !.ev = "hit", !.ret = look.ret] /\ UNCHANGED calls
           ELSE IF \E c \in BagToSet(calls) : c.key = cacheKey
           THEN last' = [obs EXCEPT !.ev = "fetch"] /\ UNCHANGED calls
           ELSE /\ MaySuspend
                /\ calls' = Suspend([NoCall EXCEPT !.pc = "get", !.op = op,
                                                   !.key = cacheKey,
                                                   !.caseName = case])
                /\ last' = [obs EXCEPT !.ev = "fetch", !.net = 1]

\* cachedGet(cacheKey, params) up to its return on a hit or to
\* `await fetch(...)` on a miss.  Of params, op stands for the action and
\* case is the `case` parameter (Undefined when the query has none).
cachedGet(op, cacheKey, case) ==
    LET look == getCached(cache, cacheKey, now)
        obs == [NoEv EXCEPT !.key = cacheKey, !.removed = Removed(cache, look.cache)]
    IN  /\ cache' = look.cache
        /\ written' = written \ {cacheKey}
        /\ UNCHANGED now
        /\ IF Truthy(look.ret)
           THEN /\ last' = [obs EXCEPT !.ev = "hit", !.ret = look.ret]
                /\ UNCHANGED calls
           ELSE /\ MaySuspend
                /\ calls' = Suspend([NoCall EXCEPT !.pc = "get", !.op = op,
                                                   !.key = cacheKey,
                                                   !.caseName = case])
                /\ last' = [obs EXCEPT !.ev = "fetch", !.net = 1]

\* ---------------------------------------------------------- API functions

\* fetchCases()
fetchCases == cachedGet("fetchCases", KeyCases, Undefined)

\* fetchComponentsByCase(caseName)
fetchComponentsByCase(caseName) ==
    IF ~validateNotEmpty(caseName)
    THEN ThrowValidation
    ELSE cachedGet("fetchComponentsByCase", KeyComponents(caseName), caseName)

\* fetchLiveStock()
fetchLiveStock == cachedGet("fetchLiveStock", KeyLiveStock, Undefined)

\* A fetchUserHoldings that goes through the cache like the other reads.
fetchUserHoldingsCached(userId) ==
    IF ~validateNotEmpty(userId)
    THEN ThrowValidation
    ELSE cachedGet("fetchUserHoldings", <<"getUserHoldings:">> \o userId, Undefined)

\* fetchUserHoldings(userId)
fetchUserHoldings(userId) ==
    IF ~validateNotEmpty(userId)
    THEN ThrowValidation
    ELSE get("fetchUserHoldings")

\* A borrowComponent that posts without checking the quantity.
borrowComponentNoQuantityCheck(userId, caseName, component, quantity) ==
    IF ~validateNotEmpty(userId) THEN ThrowValidation
    ELSE IF ~validateNotEmpty(caseName) THEN ThrowValidation
    ELSE IF ~validateNotEmpty(component) THEN ThrowValidation
    ELSE post("borrowComponent", caseName)

\* borrowComponent(userId, caseName, component, quantity) up to `await post`.
borrowComponent(userId, caseName, component, quantity) ==
    IF ~validateNotEmpty(userId) THEN ThrowValidation
    ELSE IF ~validateNotEmpty(caseName) THEN ThrowValidation
    ELSE IF ~validateNotEmpty(component) THEN ThrowValidation
    ELSE IF ~validatePositiveInt(quantity) THEN ThrowValidation
    ELSE post("borrowComponent", caseName)

\* returnComponent(userId, component, quantity) up to `await post`.
returnComponent(userId, component, quantity) ==
    IF ~validateNotEmpty(userId) THEN ThrowValidation
    ELSE IF ~validateNotEmpty(component) THEN ThrowValidation
    ELSE IF ~validatePositiveInt(quantity) THEN ThrowValidation
    ELSE post("returnComponent", Undefined)

\* A borrowComponent that forgets the components key of its case.
writeInvalidatesStockOnly(c) == <<KeyLiveStock>>

\* The keys the suspended write c invalidates on success, in source order.
writeInvalidates(c) ==
    IF c.op = "borrowComponent"
    THEN <<KeyLiveStock, KeyComponents(c.caseName)>>
    ELSE <<KeyLiveStock>>

\* The invalidateCache calls of a write, applied in order to map m.
RECURSIVE invalidateEach(_, _)
invalidateEach(m, keys) ==
    IF keys = <<>> THEN m
    ELSE invalidateEach(invalidateCache(m, Head(keys)), Tail(keys))

\* ----------------------------------------------------------- continuations

\* A continuation that stores the body of the answer whether or not the
\* request succeeded.
getResumeStoreFailure(c, r) ==
    /\ c.pc = "get"
    /\ BagIn(c, calls)
    /\ calls' = Resume(c)
    /\ cache' = IF c.key # Undefined THEN setCache(cache, c.key, r.body, now) ELSE cache
    /\ last' = IF httpResult(r).threw
               THEN [NoEv EXCEPT !.ev = "getFailed", !.key = c.key]
               ELSE [NoEv EXCEPT !.ev = "resolved", !.key = c.key, !.ret = r.body]
    /\ UNCHANGED <<now, written>>

\* A continuation that sends the GET again when it failed.
getResumeRetry(c, r) ==
    /\ c.pc = "get"
    /\ BagIn(c, calls)
    /\ IF httpResult(r).threw
       THEN /\ calls' = calls
            /\ last' = [NoEv EXCEPT !.ev = "getRequest", !.key = c.key, !.net = 1]
            /\ UNCHANGED cache
       ELSE /\ calls' = Resume(c)
            /\ cache' = IF c.key # Undefined
                        THEN setCache(cache, c.key, httpResult(r).value, now)
                        ELSE cache
            /\ last' = [NoEv EXCEPT !.ev = "resolved", !.key = c.key,
                                    !.ret = httpResult(r).value,
                                    !.replaced = c.key \in DOMAIN cache]
    /\ UNCHANGED <<now, written>>

\* The call c suspended at `await get(params)` resumes with answer r: the
\* rest of get(), then for cachedGet setCache and the return.
getResume(c, r) ==
    /\ c.pc = "get"
    /\ BagIn(c, calls)
    /\ calls' = Resume(c)
    /\ IF httpResult(r).threw
       THEN /\ last' = [NoEv EXCEPT !.ev = "getFailed", !.key = c.key]
            /\ UNCHANGED cache
       ELSE /\ cache' = IF c.key # Undefined
                        THEN setCache(cache, c.key, httpResult(r).value, now)
                        ELSE cache
            /\ last' = [NoEv EXCEPT !.ev = "resolved", !.key = c.key,
                                    !.ret = httpResult(r).value,
                                    !.replaced = c.key \in DOMAIN cache]
    /\ UNCHANGED <<now, written>>

\* The write c suspended at `await post(body)` resumes with answer r: the
\* rest of post(), then the test of data.error, the invalidations and the
\* result.  Reading data.error of a null body throws.
postResume(c, r) ==
    /\ c.pc = "post"
    /\ BagIn(c, calls)
    /\ calls' = Resume(c)
    /\ UNCHANGED now
    /\ IF httpResult(r).threw \/ httpResult(r).value.isNull
       THEN /\ last' = [NoEv EXCEPT !.ev = "postFailed"]
            /\ UNCHANGED <<cache, written>>
       ELSE IF StrTruthy(httpResult(r).value.error)
       THEN /\ last' = [NoEv EXCEPT !.ev = "rejected",
                                    !.respErr = httpResult(r).value.error,
                                    !.message = httpResult(r).value.error]
            /\ UNCHANGED <<cache, written>>
       ELSE /\ cache' = invalidateEach(cache, writeInvalidates(c))
            /\ written' = written \cup {writeInvalidates(c)[n] :
                                            n \in DOMAIN writeInvalidates(c)}
            /\ last' = [NoEv EXCEPT !.ev = "success",
                                    !.respErr = httpResult(r).value.error,
                                    !.success = TRUE, !.message = <<"Successfully">>,
                                    !.removed = Removed(cache, cache')]

\* ------------------------------------------------------ the other callers

\* The keys the application passes to the exported invalidateCache: none, the
\* empty string, a key in use, a key never stored.
InvalidateArgs ==
    {Undefined, <<>>, KeyCases, KeyLiveStock, KeyComponents(<<"A">>), <<"other">>}

\* A call of the exported invalidateCache(key?).
InvalidateCacheCall(key) ==
    /\ cache' = invalidateCache(cache, key)
    /\ last' = [NoEv EXCEPT !.ev = "invalidate", !.key = key,
                            !.removed = Removed(cache, cache')]
    /\ UNCHANGED <<now, calls, written>>

\* Time passes.
Tick(d) ==
    /\ now + d <= MaxNow
    /\ now' = now + d
    /\ last' = [NoEv EXCEPT !.ev = "tick"]
    /\ UNCHANGED <<cache, calls, written>>

\* The application calls an API function.
ApiCall(A) == ops < MaxOps /\ ops' = ops + 1 /\ A /\ UNCHANGED mailVars

\* A suspended call resumes, or time passes: no new call.
Later(A) == UNCHANGED ops /\ A /\ UNCHANGED mailVars

Next ==
    \/ ApiCall(fetchCases)
    \/ \E c \in CaseNames : ApiCall(fetchComponentsByCase(c))
    \/ ApiCall(fetchLiveStock)
    \/ \E u \in UserIds : ApiCall(fetchUserHoldings(u))
    \/ \E a \in BorrowArgs : ApiCall(borrowComponent(a[1], a[2], a[3], a[4]))
    \/ \E a \in ReturnArgs : ApiCall(returnComponent(a[1], a[2], a[3]))
    \/ \E c \in BagToSet(calls), r \in GetResponses : Later(getResume(c, r))
    \/ \E c \in BagToSet(calls), r \in PostResponses : Later(postResume(c, r))
    \/ \E k \in InvalidateArgs : ApiCall(InvalidateCacheCall(k))
    \/ \E d \in TickSteps : Later(Tick(d))

Spec == Init /\ [][Next]_vars

\* ------------------------------------------------- the e-mail alerts

apiVars == <<cache, now, calls, last, written, ops>>

\* What fetch() to the Brevo endpoint can do: reject, or resolve with a
\* response that is ok or not.
MailResponses == {"rejects", "ok", "notOk"}

\* What response.text() can do.
TextResults == {"resolves", "rejects"}

\* A sendBrevoEmail whose continuation has no try/catch around the fetch.
sendBrevoEmailResumeNoCatch(m, r) ==
    /\ m.pc = "fetch"
    /\ BagIn(m, mails)
    /\ UNCHANGED env
    /\ IF r = "notOk"
       THEN /\ mails' = (mails (-) SetToBag({m})) (+) SetToBag({[m EXCEPT !.pc = "text"]})
            /\ mlast' = [NoMail EXCEPT !.ev = "awaitText", !.alert = m.alert]
       ELSE /\ mails' = mails (-) SetToBag({m})
            /\ mlast' = [NoMail EXCEPT !.ev = "done", !.alert = m.alert,
                                       !.outcome = IF r = "rejects" THEN "rejected"
                                                   ELSE "resolved"]

\* sendBrevoEmail(to, subject, htmlContent) up to its return or to
\* `await fetch(...)`, called for the alert `alert`; `to` is ADMIN_EMAIL, and
\* subject and htmlContent are text that no test depends on.
sendBrevoEmail(alert) ==
    /\ UNCHANGED env
    /\ IF ~StrTruthy(env.BREVO_API_KEY)
       THEN /\ mlast' = [NoMail EXCEPT !.ev = "skipped", !.alert = alert,
                                       !.log = "warn", !.outcome = "resolved"]
            /\ UNCHANGED mails
       ELSE IF ~StrTruthy(env.ADMIN_EMAIL) \/ ~StrTruthy(env.FROM_EMAIL)
       THEN /\ mlast' = [NoMail EXCEPT !.ev = "skipped", !.alert = alert,
                                       !.log = "warn", !.outcome = "resolved"]
            /\ UNCHANGED mails
       ELSE /\ BagCardinality(mails) < MaxCalls
            /\ mails' = mails (+) SetToBag({[alert |-> alert, pc |-> "fetch"]})
            /\ mlast' = [NoMail EXCEPT !.ev = "request", !.alert = alert, !.net = 1]

\* sendBorrowAlert({userId, component, quantity, caseName}): the arguments
\* only fill the text of the message.
sendBorrowAlert == sendBrevoEmail("borrow")

\* sendReturnAlert({userId, component, quantity}), likewise.
sendReturnAlert == sendBrevoEmail("return")

\* The alert m suspended at `await fetch(...)` resumes with r, inside the
\* try: a rejection is caught and logged; a response that is not ok is read
\* with `await response.text()`.
sendBrevoEmailResume(m, r) ==
    /\ m.pc = "fetch"
    /\ BagIn(m, mails)
    /\ UNCHANGED env
    /\ IF r = "notOk"
       THEN /\ mails' = (mails (-) SetToBag({m})) (+) SetToBag({[m EXCEPT !.pc = "text"]})
            /\ mlast' = [NoMail EXCEPT !.ev = "awaitText", !.alert = m.alert]
       ELSE /\ mails' = mails (-) SetToBag({m})
            /\ mlast' = [NoMail EXCEPT !.ev = "done", !.alert = m.alert,
                                       !.log = IF r = "rejects" THEN "error" ELSE "none",
                                       !.outcome = "resolved"]

\* The alert m suspended at `await response.text()` resumes: the text is
\* logged, or the rejection is caught and logged.
textResume(m, t) ==
    /\ m.pc = "text"
    /\ BagIn(m, mails)
    /\ UNCHANGED env
    /\ mails' = mails (-) SetToBag({m})
    /\ mlast' = [NoMail EXCEPT !.ev = IF t = "resolves" THEN "failed" ELSE "done",
                               !.alert = m.alert, !.log = "error",
                               !.outcome = "resolved"]

EmailInit ==
    /\ ApiInit
    /\ env \in Envs
    /\ mails = EmptyBag
    /\ mlast = NoMail

EmailNext ==
    \/ sendBorrowAlert /\ UNCHANGED apiVars
    \/ sendReturnAlert /\ UNCHANGED apiVars
    \/ \E m \in BagToSet(mails), r \in MailResponses :
          sendBrevoEmailResume(m, r) /\ UNCHANGED apiVars
    \/ \E m \in BagToSet(mails), t \in TextResults :
          textResume(m, t) /\ UNCHANGED apiVars

EmailSpec == EmailInit /\ [][EmailNext]_vars

\* ================================================================ claims

\* The step taken is a call of a cached read (fetchCases,
\* fetchComponentsByCase that passed validation, fetchLiveStock).
ReadStep == ops' = ops + 1 /\ last'.ev \in {"hit", "fetch"}

\* The age of the entry of key k.
Age(k) == now - cache[k].timestamp

\* Map d holds every entry of map c outside `keys`, unchanged, and no other.
SameExcept(c, d, keys) ==
    /\ DOMAIN d = DOMAIN c \ keys
    /\ \A k \in DOMAIN d : d[k] = c[k]

\* C1: after a write returned success:true, the next call of fetchLiveStock
\* (and, after a borrow, the next call of fetchComponentsByCase with the same
\* caseName) misses the cache and issues a network fetch.
C1_NextReadAfterWriteFetches ==
    [][(ReadStep /\ last'.key \in written)
         => (last'.ev = "fetch" /\ last'.net = 1)]_vars

\* C2: when the answer to the POST of a write carries an error field, the
\* write returns success:false with that error as its message and the cache
\* is left as it was.
C2_ErrorAnswerRejectsAndKeepsCache ==
    [][(last'.ev \in {"rejected", "success"} /\ last'.respErr # Undefined)
         => (/\ last'.success = FALSE
             /\ last'.message = last'.respErr
             /\ cache' = cache)]_vars

\* C3: no cached read returns an expired entry: whenever a lookup hands out
\* the stored value (the entry survives the lookup, and on a hit is the value
\* returned), the entry's age is at most the TTL.
C3_NoExpiredEntryReturned ==
    [][ReadStep =>
         /\ (last'.key \in DOMAIN cache /\ last'.key \in DOMAIN cache')
               => Age(last'.key) <= CACHE_TTL_MS
         /\ last'.ev = "hit"
               => /\ last'.key \in DOMAIN cache
                  /\ last'.ret = cache[last'.key].data
                  /\ Age(last'.key) <= CACHE_TTL_MS]_vars

\* C3 witness: a read was served from the cache at age exactly TTL.
C3_Witness ==
    /\ last.ev = "hit"
    /\ last.key \in DOMAIN cache
    /\ Age(last.key) = CACHE_TTL_MS

\* A rejected call: the validation error is all that happened.
NothingHappened ==
    /\ last'.ev = "invalid"
    /\ last'.net = 0
    /\ cache' = cache
    /\ calls' = calls

\* C4: a call whose arguments fail validation raises before any request is
\* issued and changes nothing: no call is suspended at a fetch and the cache
\* is as before.
C4_ValidationFailureHasNoEffect ==
    [][ops' = ops + 1 =>
         /\ \A c \in CaseNames :
               (~validateNotEmpty(c) /\ fetchComponentsByCase(c)) => NothingHappened
         /\ \A u \in UserIds :
               (~validateNotEmpty(u) /\ fetchUserHoldings(u)) => NothingHappened
         /\ \A a \in BorrowArgs :
               (/\ ~(/\ validateNotEmpty(a[1]) /\ validateNotEmpty(a[2])
                     /\ validateNotEmpty(a[3]) /\ validatePositiveInt(a[4]))
                /\ borrowComponent(a[1], a[2], a[3], a[4]))
               => NothingHappened
         /\ \A a \in ReturnArgs :
               (/\ ~(/\ validateNotEmpty(a[1]) /\ validateNotEmpty(a[2])
                     /\ validatePositiveInt(a[3]))
                /\ returnComponent(a[1], a[2], a[3]))
               => NothingHappened]_vars

\* C4 witness: a validation failure happened while the cache held entries and
\* another call was suspended.
C4_Witness ==
    /\ last.ev = "invalid"
    /\ cache # EmptyMap
    /\ calls # EmptyBag

\* The keys the claim lists for the write c.
ListedKeys(c) ==
    IF c.op = "borrowComponent"
    THEN {KeyLiveStock, KeyComponents(c.caseName)}
    ELSE {KeyLiveStock}

\* C5: a successful write removes exactly the keys listed for it: every other
\* entry keeps its value and timestamp.
C5_SuccessRemovesExactlyListedKeys ==
    [][last'.ev = "success" =>
         \E c \in BagToSet(calls) :
            /\ c.pc = "post"
            /\ calls' = Resume(c)
            /\ SameExcept(cache, cache', ListedKeys(c))]_vars

\* C5 witness: a successful borrow for case A removed an entry and left the
\* components of case B in the cache.
C5_Witness ==
    /\ last.ev = "success"
    /\ last.removed >= 1
    /\ KeyComponents(<<"A">>) \in written
    /\ KeyComponents(<<"B">>) \in DOMAIN cache

\* C6: two sequential calls of the same cached read, the second right after
\* the first one fetched and returned its value: the second issues no
\* request and returns the value the first fetched.
C6_SecondReadServedFromCache ==
    [][(ReadStep /\ last.ev = "resolved" /\ last'.key = last.key)
         => (/\ last'.ev = "hit"
             /\ last'.net = 0
             /\ last'.ret = last.ret)]_vars

\* C7: a cached read that fails, or that is still waiting, writes nothing:
\* the failing step leaves the cache as it was, the step that issues the
\* request only drops the expired entry of its key, and a read of a key that
\* has no entry fetches.
C7_FailedReadWritesNothing ==
    [][/\ last'.ev = "getFailed" => cache' = cache
       /\ (ReadStep /\ last'.ev = "fetch")
             => /\ \A k \in DOMAIN cache' : k \in DOMAIN cache /\ cache'[k] = cache[k]
                /\ DOMAIN cache \ DOMAIN cache' \subseteq {last'.key}
       /\ (ReadStep /\ last'.key \notin DOMAIN cache) => last'.ev = "fetch"]_vars

\* C7 witness: the fetch of a cached read failed and its key has no entry.
C7_Witness ==
    /\ last.ev = "getFailed"
    /\ last.key # Undefined
    /\ last.key \notin DOMAIN cache
    /\ cache # EmptyMap

\* C8: invalidateCache(key) with a string key removes at most the entry of
\* that key: every other entry keeps its value and timestamp.
C8_InvalidateKeyRemovesOnlyThatKey ==
    [][(last'.ev = "invalidate" /\ last'.key # Undefined)
         => \A k \in DOMAIN cache \ {last'.key} :
               k \in DOMAIN cache' /\ cache'[k] = cache[k]]_vars

C10_ExpiryAtLookup ==
    [][/\ \A k \in DOMAIN cache :
             Age(k) = CACHE_TTL_MS => getCached(cache, k, now).ret = cache[k].data
       /\ \A k \in DOMAIN cache' \ DOMAIN cache :
             last'.ev = "resolved" /\ last'.key = k
       /\ ReadStep =>
            /\ (last'.key \in DOMAIN cache /\ Age(last'.key) > CACHE_TTL_MS)
                  => (last'.key \notin DOMAIN cache' /\ last'.ev = "fetch")
            /\ (last'.key \in DOMAIN cache /\ Age(last'.key) = CACHE_TTL_MS)
                  => /\ last'.key \in DOMAIN cache'
                     /\ cache'[last'.key] = cache[last'.key]
                     /\ Truthy(cache[last'.key].data)
                           => (last'.ev = "hit" /\ last'.ret = cache[last'.key].data)
            /\ last'.key \notin DOMAIN cache
                  => (last'.key \notin DOMAIN cache' /\ last'.ev = "fetch")]_vars

\* C10 witness: a lookup found an entry older than the TTL and deleted it.
C10_Witness ==
    /\ last.ev = "fetch"
    /\ last.removed = 1
    /\ last.key \notin DOMAIN cache

\* C11: a lookup after a set of a key, within the TTL, returns exactly the
\* stored value; a set stores the value with the current time under its key,
\* replacing the entry the key had and touching no other entry.
C11_GetAfterSetRoundTrip ==
    [][/\ (last'.ev = "resolved" /\ last'.key # Undefined)
             => /\ DOMAIN cache' = DOMAIN cache \cup {last'.key}
                /\ cache'[last'.key] = [data |-> last'.ret, timestamp |-> now]
                /\ \A k \in DOMAIN cache \ {last'.key} : cache'[k] = cache[k]
                /\ getCached(cache', last'.key, now').ret = last'.ret
       /\ \A k \in DOMAIN cache :
             Age(k) <= CACHE_TTL_MS
                => /\ getCached(cache, k, now).ret = cache[k].data
                   /\ getCached(cache, k, now).cache = cache]_vars

\* C11 witness: a set replaced the entry of its key with another value at a
\* later time.
C11_Witness ==
    /\ last.ev = "resolved"
    /\ last.replaced
    /\ now > 0
    /\ cache[last.key] = [data |-> "d2", timestamp |-> now]

\* C12: fetchUserHoldings is always live: a call that passes validation sends
\* its own GET, of no cache key, and neither that step nor the arrival of its
\* answer reads or changes the cache.
C12_UserHoldingsAlwaysLive ==
    [][/\ \A u \in UserIds :
             (ops' = ops + 1 /\ validateNotEmpty(u) /\ fetchUserHoldings(u))
                => /\ last'.ev = "getRequest"
                   /\ last'.net = 1
                   /\ cache' = cache
                   /\ calls' = Suspend([NoCall EXCEPT !.pc = "get",
                                                      !.op = "fetchUserHoldings"])
       /\ \A c \in BagToSet(calls) :
             (c.op = "fetchUserHoldings" /\ calls' = Resume(c))
                => c.key = Undefined /\ cache' = cache]_vars

\* C12 witness: the answer of a user-holdings request has arrived while the
\* cache holds an entry.
C12_Witness ==
    /\ last.ev = "resolved"
    /\ last.key = Undefined
    /\ last.ret # "null"
    /\ cache # EmptyMap

\* C13: a write invalidates only once the answer to its POST has arrived and
\* says success: sending the POST changes no entry, and an answer with an
\* error field (whatever its string value) or a failed transport invalidates
\* nothing and never yields success:true.
C13_InvalidateOnlyOnConfirmedSuccess ==
    [][/\ last'.ev \in {"invalid", "postRequest"} => cache' = cache
       /\ (\/ last'.ev = "postFailed"
           \/ (last'.ev \in {"rejected", "success"} /\ last'.respErr # Undefined))
             => /\ ~last'.success
                /\ last'.removed = 0
                /\ written' = written
                /\ cache' = cache]_vars

\* The fraction q is one of the integers 1, 2, 3, ...
IsPositiveInteger(q) == \E n \in 1..q[1] : q[1] = n * q[2]

\* C14: borrowComponent and returnComponent raise a validation error, with
\* no request, whenever the quantity is not a positive integer or a required
\* string is empty; a call whose arguments pass validation sends exactly one
\* POST.
C14_WritesValidateThenPostOnce ==
    [][(ops' = ops + 1 /\ last'.ev \in {"invalid", "postRequest"}) =>
         /\ \A a \in BorrowArgs :
               borrowComponent(a[1], a[2], a[3], a[4]) =>
                  /\ (~IsPositiveInteger(a[4]) \/ <<>> \in {a[1], a[2], a[3]})
                        => (last'.ev = "invalid" /\ last'.net = 0 /\ calls' = calls)
                  /\ (/\ validateNotEmpty(a[1]) /\ validateNotEmpty(a[2])
                      /\ validateNotEmpty(a[3]) /\ validatePositiveInt(a[4]))
                        => /\ last'.ev = "postRequest"
                           /\ last'.net = 1
                           /\ calls' = Suspend([NoCall EXCEPT !.pc = "post",
                                                   !.op = "borrowComponent",
                                                   !.caseName = a[2]])
         /\ \A a \in ReturnArgs :
               returnComponent(a[1], a[2], a[3]) =>
                  /\ (~IsPositiveInteger(a[3]) \/ <<>> \in {a[1], a[2]})
                        => (last'.ev = "invalid" /\ last'.net = 0 /\ calls' = calls)
                  /\ (/\ validateNotEmpty(a[1]) /\ validateNotEmpty(a[2])
                      /\ validatePositiveInt(a[3]))
                        => /\ last'.ev = "postRequest"
                           /\ last'.net = 1
                           /\ calls' = Suspend([NoCall EXCEPT !.pc = "post",
                                                   !.op = "returnComponent"])]_vars

\* C14 witness: a borrow and a return with proper arguments have each sent
\* their POST.
C14_Witness ==
    /\ last.ev = "postRequest"
    /\ last.net = 1
    /\ \E c \in BagToSet(calls) : c.op = "borrowComponent" /\ c.caseName = <<"A">>
    /\ \E c \in BagToSet(calls) : c.op = "returnComponent"

\* C15: no operation sends more than one request per invocation: the step
\* that starts a call sends at most one request and suspends at most that one
\* call; a cache hit sends none and a miss sends one; the step on which an
\* answer or a failure arrives ends the call and sends nothing, so a failure
\* is not retried.
C15_AtMostOneRequestPerInvocation ==
    [][/\ last'.net \in {0, 1}
       /\ ops' = ops + 1
             => /\ BagCardinality(calls') = BagCardinality(calls) + last'.net
                /\ \A c \in BagToSet(calls) : CopiesIn(c, calls') >= CopiesIn(c, calls)
       /\ last'.ev = "hit" => (last'.net = 0 /\ calls' = calls)
       /\ last'.ev = "fetch" => last'.net = 1
       /\ (ops' = ops /\ last'.ev # "tick")
             => /\ last'.net = 0
                /\ \E c \in BagToSet(calls) : calls' = Resume(c)
       /\ last'.ev \in {"getFailed", "postFailed"}
             => (cache' = cache /\ ~last'.success /\ last'.ret = NoVal)]_vars

\* C15 witness: the request of a cached read has failed and the failure has
\* reached the caller with no call left waiting.
C15_Witness ==
    /\ last.ev = "getFailed"
    /\ last.key = KeyLiveStock
    /\ calls = EmptyBag
    /\ ops = 1

\* C16: after a successful write of the client, the value of a request sent
\* before the write's invalidation is never put back under an invalidated
\* key: no answer is stored under a key that a write has invalidated and no
\* read has been started for since.
C16_NoStaleValuePutBackAfterWrite ==
    [][~(/\ last'.ev = "resolved"
         /\ last'.key \in written
         /\ last'.key \in DOMAIN cache')]_vars

\* C17: on a cache hit (the key has an entry no older than the TTL) cachedGet
\* returns the stored value and sends no request, whatever JSON value is
\* stored, the falsy ones included.
C17_HitReturnsStoredValueEvenFalsy ==
    [][(ReadStep /\ last'.key \in DOMAIN cache /\ Age(last'.key) <= CACHE_TTL_MS)
         => /\ last'.ev = "hit"
            /\ last'.ret = cache[last'.key].data
            /\ last'.net = 0
            /\ calls' = calls]_vars

\* C18: a cached read started while its key is absent or expired sends its
\* own request, also when another read of the same key is already waiting for
\* its answer; each answer that arrives is stored under the key, so once both
\* have completed the key has one entry, the answer that arrived last.
C18_ConcurrentMissesEachFetchLastWins ==
    [][/\ (ReadStep /\ (last'.key \notin DOMAIN cache
                           \/ Age(last'.key) > CACHE_TTL_MS))
             => /\ last'.ev = "fetch"
                /\ last'.net = 1
                /\ \E c \in BagToSet(calls') :
                      /\ c.key = last'.key
                      /\ CopiesIn(c, calls') = CopiesIn(c, calls) + 1
       /\ (last'.ev = "resolved" /\ last'.key # Undefined)
             => /\ cache'[last'.key].data = last'.ret
                /\ DOMAIN cache' = DOMAIN cache \cup {last'.key}
                /\ \E c \in BagToSet(calls) :
                      /\ c.key = last'.key
                      /\ CopiesIn(c, calls') = CopiesIn(c, calls) - 1]_vars

\* C18 witness: two reads of one key, both started while the key had no
\* entry, are waiting for their answers.
C18_Witness ==
    /\ last.ev = "fetch"
    /\ last.key \notin DOMAIN cache
    /\ \E c \in BagToSet(calls) : c.key = last.key /\ CopiesIn(c, calls) = 2

\* The case names used, and all names of two characters, that pass validation.
ValidNames ==
    {n \in CaseNames \cup {<<x, y>> : x, y \in {"A", " ", ":"}} :
        validateNotEmpty(n)}

\* The cache key the claim assigns to the query of the call c.
QueryKey(c) ==
    IF c.op = "fetchCases" THEN <<"getCases">>
    ELSE IF c.op = "fetchLiveStock" THEN <<"getLiveStock">>
    ELSE <<"getComponents:">> \o c.caseName

\* C19: cache keys never collide: the keys of the three cached queries are
\* pairwise distinct for every valid case name and the components key is
\* injective in the case name; every request whose answer will be stored is
\* the query its key names, so requests with one key are one query and every
\* entry sits under the key of a cached query; the components key a borrow
\* invalidates is the key the components read of the same case uses.
C19_CacheKeysNeverCollide ==
    /\ KeyCases # KeyLiveStock
    /\ \A n \in ValidNames : KeyComponents(n) \notin {KeyCases, KeyLiveStock}
    /\ \A n, m \in ValidNames : KeyComponents(n) = KeyComponents(m) => n = m
    /\ \A c \in BagToSet(calls) :
          (c.pc = "get" /\ c.key # Undefined)
             => /\ c.op \in {"fetchCases", "fetchLiveStock", "fetchComponentsByCase"}
                /\ c.key = QueryKey(c)
                /\ c.op = "fetchComponentsByCase" => c.caseName \in ValidNames
    /\ \A c, d \in BagToSet(calls) :
          (c.pc = "get" /\ d.pc = "get" /\ c.key # Undefined /\ c.key = d.key)
             => (c.op = d.op /\ c.caseName = d.caseName)
    /\ DOMAIN cache \subseteq
          {<<"getCases">>, <<"getLiveStock">>}
             \cup {<<"getComponents:">> \o n : n \in ValidNames}
    /\ \A w, c \in BagToSet(calls) :
          (/\ w.op = "borrowComponent" /\ c.op = "fetchComponentsByCase"
           /\ w.caseName = c.caseName)
             => \E n \in DOMAIN writeInvalidates(w) : writeInvalidates(w)[n] = c.key

\* C19 witness: the components of two cases are stored, each under its own
\* key with its own answer, while a borrow from one of the cases waits for
\* the answer to its POST.
C19_Witness ==
    /\ KeyComponents(<<"A">>) \in DOMAIN cache
    /\ KeyComponents(<<"B">>) \in DOMAIN cache
    /\ cache[KeyComponents(<<"A">>)].data # cache[KeyComponents(<<"B">>)].data
    /\ \E w \in BagToSet(calls) : w.op = "borrowComponent" /\ w.caseName = <<"B">>

\* The e-mail configuration is complete.
Configured ==
    /\ env.BREVO_API_KEY \notin {Undefined, <<>>}
    /\ env.ADMIN_EMAIL \notin {Undefined, <<>>}
    /\ env.FROM_EMAIL \notin {Undefined, <<>>}

\* C20: sendBorrowAlert and sendReturnAlert never fail towards their caller:
\* with the API key, the admin address or the from address missing the call
\* returns at once without a request; with the configuration complete it
\* sends one request; a request that throws or is answered not-ok is only
\* logged and the call completes normally.
C20_AlertsNeverFailTowardsCaller ==
    [][/\ mlast'.outcome # "rejected"
       /\ mlast'.ev \in {"skipped", "request"}
             => IF Configured
                THEN /\ mlast'.ev = "request"
                     /\ mlast'.net = 1
                     /\ BagCardinality(mails') = BagCardinality(mails) + 1
                ELSE /\ mlast'.ev = "skipped"
                     /\ mlast'.net = 0
                     /\ mlast'.outcome = "resolved"
                     /\ mails' = mails
       /\ BagCardinality(mails') < BagCardinality(mails)
             => (mlast'.outcome = "resolved" /\ mlast'.net = 0)
       /\ mlast'.ev = "awaitText"
             => (mlast'.net = 0 /\ BagCardinality(mails') = BagCardinality(mails))]_vars

\* C20 witness: the request of an alert was rejected, or its not-ok answer
\* was read, the error was logged and the call returned normally.
C20_Witness ==
    /\ mlast.log = "error"
    /\ mlast.outcome = "resolved"
    /\ mlast.alert = "return"
    /\ mails = EmptyBag

====
